---- MODULE Spec2Model ----
(***************************************************************************)
(* Mutation-safety and resilience core of the report API:                  *)
(*   - InMemoryStore (services/dataStore.ts): reports, audit log           *)
(*   - BusinessRulesService (services/businessRules.ts): the rule chain    *)
(*   - ReportsController.updateReport behind the PUT /api/reports/:id      *)
(*     route (routes/reports.ts): the handler chain as it is mounted       *)
(*   - executeAsyncSideEffect (utils/retry): retry loop, circuit breaker,  *)
(*     dead-letter path                                                    *)
(* Three specifications share the variables:                               *)
(*   SpecStore  direct calls of the store's report operations              *)
(*   SpecApi    interleaved PUT requests through the mounted route         *)
(*   SpecExec   interleaved executeAsyncSideEffect calls and the clock     *)
(***************************************************************************)
EXTENDS Integers, Sequences, FiniteSets, TLC

\* ---------------------------------------------------------------- bounds
MaxVersion == 3
MaxCreated == 1
MaxNow == 4
MaxReqs == 2
MaxCalls == 2
MaxRetriesBound == 1
MaxUploads == 2

\* ------------------------------------------------------------- constants
Absent == -1
AuditCap == 1000
MaxConcurrentEditors == 3
\* options of executeAsyncSideEffect, in clock ticks
CircuitBreakerThreshold == 2
CircuitBreakerResetMs == 1
BackoffMs == 1

\* ------------------------------------------------------------ the domain
Users == {"user-1", "user-2", "user-3"}

UserRole == [u \in Users |->
               CASE u = "user-1" -> "admin"
                 [] u = "user-2" -> "editor"
                 [] OTHER        -> "reader"]

ReportStatus == {"draft", "active", "archived", "deleted"}

SampleIds == {"report-1", "report-2"}

CreatedIds == {"new-1", "new-2", "new-3"}

\* the ids uuidv4() hands out, in order, within the bound
IdOfIndex(n) == CASE n = 1 -> "new-1" [] n = 2 -> "new-2" [] OTHER -> "new-3"

NoField == "absent"

\* -------------------------------------------------------------- variables
VARIABLES
  reports,               \* InMemoryStore.reports: id -> Report
  auditLogs,             \* InMemoryStore.auditLogs
  now,                   \* the wall clock read by new Date() / Date.now()
  lastCall,              \* the last direct store call and how it ended
  reqs,                  \* the PUT requests in flight: id -> handler frame
  circuitBreakerStates,  \* Map operationName -> state object (0: no entry)
  cbHeap,                \* the CircuitBreakerState objects ever allocated
  calls,                 \* executeAsyncSideEffect calls: id -> frame
  deadLetters,           \* per call (correlation id): the number of records
                         \* written by simulateDeadLetterQueue
  streak,                \* per kind: failed invocations since the last
                         \* success, half-open transition or creation
  posts,                 \* POST /api/reports requests: slot -> frame
  users,                 \* InMemoryStore.users: id -> storageUsed
  attachments,           \* InMemoryStore.attachments, in order of creation
  uploads,               \* POST /:id/attachment requests: slot -> frame
  idempotencyCache,      \* the LRU cache of idempotency.ts: key -> entry
  ireqs,                 \* requests through idempotencyMiddleware
  ruleCtx,               \* the context handed to evaluateAllRules
  ruleResult             \* what evaluateAllRules returned for it

storeVars == <<reports, auditLogs, now, lastCall>>

uploadVars == <<users, attachments, uploads>>

idemVars == <<idempotencyCache, ireqs>>

rulesVars == <<ruleCtx, ruleResult>>

\* ---------------------------------------------------------------- store
\* Sample data written by the constructor.  createdAt is kept as the flag
\* `old` (createdAt < two years before the evaluation of the retention rule).
initializeSampleData ==
  [id \in SampleIds |->
     IF id = "report-1"
     THEN [isActive |-> TRUE, status |-> "active", version |-> 1,
           createdBy |-> "user-2", collaborators |-> {"user-1"},
           concurrentEditors |-> {}, lastModifiedBy |-> "user-2",
           lastModifiedAt |-> 0, updatedAt |-> 0, title |-> "t0",
           old |-> FALSE]
     ELSE [isActive |-> TRUE, status |-> "archived", version |-> 1,
           createdBy |-> "user-2", collaborators |-> {},
           concurrentEditors |-> {}, lastModifiedBy |-> "user-2",
           lastModifiedAt |-> 0, updatedAt |-> 0, title |-> "t0",
           old |-> TRUE]]

\* uuidv4(): an id no report has yet
NumCreated(rs) == Cardinality(DOMAIN rs \ SampleIds)

FreshId(rs) == IdOfIndex(NumCreated(rs) + 1)

\* InMemoryStore.createReport: the data, then id/createdAt/updatedAt/
\* version/isActive written over it.
createReport(rs, id, data, t) ==
  [k \in (DOMAIN rs) \cup {id} |->
     IF k = id
     THEN [isActive |-> TRUE, status |-> data.status, version |-> 1,
           createdBy |-> data.createdBy, collaborators |-> data.collaborators,
           concurrentEditors |-> data.concurrentEditors,
           lastModifiedBy |-> data.lastModifiedBy,
           lastModifiedAt |-> data.lastModifiedAt, updatedAt |-> t,
           title |-> data.title, old |-> FALSE]
     ELSE rs[k]]

\* InMemoryStore.getReport: null (here: no record) for a missing or
\* soft-deleted report.
HasReport(rs, id) == id \in DOMAIN rs /\ rs[id].isActive

\* JavaScript truthiness of `updates.version`: undefined and 0 are falsy.
Truthy(v) == v # Absent /\ v # 0

\* Mutant: the optimistic concurrency check left out.
updateReportOutcomeUnchecked(rs, id, updates) ==
  IF ~HasReport(rs, id) THEN "NotFound" ELSE "ok"

\* The outcome of InMemoryStore.updateReport before anything is written.
updateReportOutcome(rs, id, updates) ==
  IF ~HasReport(rs, id) THEN "NotFound"
  ELSE IF Truthy(updates.version) /\ updates.version # rs[id].version
       THEN "Conflict"
       ELSE "ok"

\* Mutant: the spread of the updates placed last, so that a version carried
\* by the updates overrides the increment.
mergedReportSpreadLast(report, updates, userId, t) ==
  [report EXCEPT
     !.title = IF updates.title # NoField THEN updates.title ELSE @,
     !.status = IF updates.status # NoField THEN updates.status ELSE @,
     !.concurrentEditors = IF updates.concurrentEditors # <<>>
                           THEN updates.concurrentEditors[1] ELSE @,
     !.updatedAt = t,
     !.lastModifiedBy = userId,
     !.lastModifiedAt = t,
     !.version = IF updates.version # Absent THEN updates.version
                 ELSE report.version + 1]

\* { ...report, ...updates, updatedAt, lastModifiedBy, lastModifiedAt,
\*   version: report.version + 1 }
mergedReport(report, updates, userId, t) ==
  [report EXCEPT
     !.title = IF updates.title # NoField THEN updates.title ELSE @,
     !.status = IF updates.status # NoField THEN updates.status ELSE @,
     !.concurrentEditors = IF updates.concurrentEditors # <<>>
                           THEN updates.concurrentEditors[1] ELSE @,
     !.updatedAt = t,
     !.lastModifiedBy = userId,
     !.lastModifiedAt = t,
     !.version = report.version + 1]

\* InMemoryStore.updateReport: the map after the call (unchanged when the
\* call throws).
updateReport(rs, id, updates, userId, t) ==
  IF updateReportOutcome(rs, id, updates) = "ok"
  THEN [rs EXCEPT ![id] = mergedReport(rs[id], updates, userId, t)]
  ELSE rs

\* InMemoryStore.deleteReport: soft delete, in place.
deleteReport(rs, id, t) ==
  IF id \in DOMAIN rs
  THEN [rs EXCEPT ![id].isActive = FALSE, ![id].status = "deleted",
                  ![id].updatedAt = t]
  ELSE rs

\* BusinessRulesService.shouldAutoArchive
shouldAutoArchive(report) == report.old /\ report.status # "archived"

\* InMemoryStore.autoArchiveOldReports
autoArchiveOldReports(rs, t) ==
  [id \in DOMAIN rs |->
     IF rs[id].isActive /\ shouldAutoArchive(rs[id])
     THEN [rs[id] EXCEPT !.status = "archived", !.updatedAt = t]
     ELSE rs[id]]

\* InMemoryStore.addAuditLog: push, then keep the last 1000.
addAuditLog(logs, entry) ==
  LET pushed == Append(logs, entry)
  IN IF Len(pushed) > AuditCap
     THEN SubSeq(pushed, Len(pushed) - AuditCap + 1, Len(pushed))
     ELSE pushed

\* -------------------------------------------------------- business rules
DefaultUserQuota == 104857600
PremiumUserQuota == 524288000

getUserQuota(tier) ==
  IF tier = "premium" THEN PremiumUserQuota ELSE DefaultUserQuota

Allow == [allowed |-> TRUE, reason |-> ""]

Deny(why) == [allowed |-> FALSE, reason |-> why]

\* Mutant: editors may edit archived reports as well.
checkReportLifecycleManagementEditors(ctx) ==
  IF ctx.action = "update" /\ ctx.report.status = "archived"
  THEN IF ctx.user.role \in {"admin", "editor"} THEN Allow
       ELSE Deny("Only ADMIN users can edit archived reports")
  ELSE Allow

\* Rule 1
checkReportLifecycleManagement(ctx) ==
  IF ctx.action = "update" /\ ctx.report.status = "archived"
  THEN IF ctx.user.role = "admin" THEN Allow
       ELSE Deny("Only ADMIN users can edit archived reports")
  ELSE Allow

\* Rule 2 (`resource?.fileSize` is falsy for a missing or zero size)
checkAttachmentQuota(ctx) ==
  IF ctx.action = "upload" /\ ctx.fileSize # Absent /\ ctx.fileSize # 0
  THEN IF ctx.user.storageUsed + ctx.fileSize <= getUserQuota(ctx.user.tier)
       THEN Allow
       ELSE Deny("Storage quota exceeded")
  ELSE Allow

\* Rule 3
checkReportCollaboration(ctx) ==
  IF ctx.action = "update"
  THEN LET isCreator == ctx.report.createdBy = ctx.user.id
           isCollaborator == ctx.user.id \in ctx.report.collaborators
           isAdmin == ctx.user.role = "admin"
           isCurrentlyEditing == ctx.user.id \in ctx.report.concurrentEditors
           wouldExceedLimit ==
             /\ ~isCurrentlyEditing
             /\ Cardinality(ctx.report.concurrentEditors)
                  >= MaxConcurrentEditors
       IN IF ~isCreator /\ ~isCollaborator /\ ~isAdmin
          THEN Deny("Only the creator, assigned collaborators, or admins can edit this report")
          ELSE IF wouldExceedLimit
               THEN Deny("Maximum of 3 concurrent editors allowed")
               ELSE Allow
  ELSE Allow

\* Rule 4
checkDataRetentionPolicy(ctx) ==
  IF ctx.report.old /\ ctx.action = "update" /\ ctx.user.role # "admin"
  THEN Deny("Reports older than 2 years are read-only for non-admin users")
  ELSE Allow

\* Mutant: no role floor.
checkGeneralEditPermissionsNone(ctx) == Allow

\* General edit permissions, checked last
checkGeneralEditPermissions(ctx) ==
  IF ctx.action = "update"
     /\ ~(ctx.user.role = "editor" \/ ctx.user.role = "admin")
  THEN Deny("Insufficient permissions. Minimum role required: editor")
  ELSE Allow

\* Mutant: the role floor checked first.
evaluateAllRulesRoleFirst(ctx) ==
  LET rules == << checkGeneralEditPermissions(ctx),
                  checkReportLifecycleManagement(ctx),
                  checkAttachmentQuota(ctx),
                  checkReportCollaboration(ctx),
                  checkDataRetentionPolicy(ctx) >>
      denying == {i \in 1 .. Len(rules) : ~rules[i].allowed}
  IN IF denying = {} THEN Allow
     ELSE rules[CHOOSE i \in denying : \A j \in denying : i <= j]

\* The result of the first rule that denies, in the order of the list.
evaluateAllRules(ctx) ==
  LET rules == << checkReportLifecycleManagement(ctx),
                  checkAttachmentQuota(ctx),
                  checkReportCollaboration(ctx),
                  checkDataRetentionPolicy(ctx),
                  checkGeneralEditPermissions(ctx) >>
      denying == {i \in 1 .. Len(rules) : ~rules[i].allowed}
  IN IF denying = {} THEN Allow
     ELSE rules[CHOOSE i \in denying : \A j \in denying : i <= j]

\* AuthService.hasRole: the role hierarchy reader < editor < admin
roleHierarchy(role) ==
  CASE role = "reader" -> 1 [] role = "editor" -> 2 [] OTHER -> 3

hasRole(role, requiredRole) == roleHierarchy(role) >= roleHierarchy(requiredRole)

\* authenticateToken: the user object built from the token payload
UserTier == [u \in Users |-> IF u = "user-1" THEN "premium" ELSE "default"]

authenticateToken(u) ==
  [id |-> u, role |-> UserRole[u], tier |-> UserTier[u], storageUsed |-> 0]

\* ------------------------------------- PUT /api/reports/:id as mounted
\* app.use('/api/reports', authenticateToken, reportRoutes) and
\* router.put('/:id', [requireMinRole(EDITOR), validators...,
\* ReportsController.updateReport]): the chain a PUT request runs through.
\* The Idempotency-Key header of the request is carried in the frame; no
\* handler of the chain reads it.
ReqIds == 1 .. MaxReqs

NoReport == [isActive |-> FALSE]

IdleReq ==
  [pc |-> "idle", user |-> "none", id |-> "none", body |-> NoField,
   key |-> NoField, current |-> NoReport, outcome |-> "none",
   status |-> 0, message |-> "", respVersion |-> Absent, after |-> {}]

\* :id of the request: a sample id, or ids of the shape uuidv4() hands out
\* (whether a report has that id depends on the POST requests so far)
ApiIds == {"report-1", "new-1"}

\* param('id').isUUID(): the ids of the sample data are no UUIDs
isUUID(id) == id \notin SampleIds

\* request bodies: version is optional and must be an integer >= 1 to pass
\* the validator
Bodies ==
  [version : {Absent, 0, 1}, title : {"t1"}, status : {NoField},
   concurrentEditors : {<<>>}]

\* Idempotency-Key header values: the requests carry one canonical UUID, so
\* that every request is a replay candidate of the ones answered before it
\* (no handler of the chain as mounted reads the header).
Keys == {"6f1b6c1e-0c0e-4b7a-9d46-0d1c2a3b4c5d"}

IsSuccess(st) == st >= 200 /\ st < 300

\* The requests that had been answered with a success status, under the
\* same idempotency key, when a request arrives.
AnsweredBefore(key) ==
  IF key = NoField THEN {}
  ELSE {q \in ReqIds : reqs[q].pc = "done" /\ reqs[q].key = key
                        /\ IsSuccess(reqs[q].status)}

\* param('id').isUUID() and body('version').optional().isInt({min: 1})
validationErrors(id, body) ==
  \/ ~isUUID(id)
  \/ body.version # Absent /\ body.version < 1

Respond(frame, st, msg) ==
  [frame EXCEPT !.pc = "done", !.status = st, !.message = msg]

\* requireMinRole(EDITOR), the validators, then the controller up to its
\* first suspension: `await dataStore.getReport(id)`.
PutArrive(p, u, id, body, key) ==
  /\ reqs[p].pc = "idle"
  /\ \A q \in ReqIds : q < p => reqs[q].pc # "idle"
  /\ LET user == authenticateToken(u)
         frame == [reqs[p] EXCEPT !.user = u, !.key = key, !.id = id,
                                  !.after = AnsweredBefore(key)]
     IN reqs' = [reqs EXCEPT ![p] =
          IF ~hasRole(user.role, "editor")
          THEN Respond(frame, 403,
                 "Insufficient permissions. Minimum role required: editor")
          ELSE IF validationErrors(id, body)
               THEN Respond([frame EXCEPT !.body = body], 400,
                            "Validation failed")
               ELSE [frame EXCEPT !.pc = "gotReport", !.body = body,
                        !.current = IF HasReport(reports, id)
                                    THEN reports[id] ELSE NoReport]]
  /\ UNCHANGED storeVars

\* The updates the controller hands to the store:
\* { ...updateData, version: currentReport.version }
controllerUpdates(body, current) ==
  [version |-> current.version, title |-> body.title, status |-> body.status,
   concurrentEditors |-> body.concurrentEditors]

\* The controller from the result of getReport to its next suspension:
\* not found, rule check, then the call of dataStore.updateReport.
PutApply(p) ==
  /\ reqs[p].pc = "gotReport"
  /\ LET f == reqs[p]
         user == authenticateToken(f.user)
     IN IF ~f.current.isActive
        THEN /\ reqs' = [reqs EXCEPT ![p] = Respond(f, 404, "Report not found")]
             /\ UNCHANGED reports
        ELSE LET rule == evaluateAllRules([user |-> user, report |-> f.current,
                                           action |-> "update",
                                           fileSize |-> Absent])
                 updates == controllerUpdates(f.body, f.current)
                 outcome == updateReportOutcome(reports, f.id, updates)
             IN IF ~rule.allowed
                THEN /\ reqs' = [reqs EXCEPT ![p] = Respond(f, 403, rule.reason)]
                     /\ UNCHANGED reports
                ELSE /\ HasReport(reports, f.id)
                          => reports[f.id].version < MaxVersion
                     /\ reports' = updateReport(reports, f.id, updates, f.user, now)
                     /\ reqs' = [reqs EXCEPT ![p] =
                          CASE outcome = "NotFound" ->
                                 Respond([f EXCEPT !.outcome = outcome], 404,
                                         "Report not found")
                            [] outcome = "Conflict" ->
                                 Respond([f EXCEPT !.outcome = outcome], 409,
                                   "Report has been modified by another user")
                            [] OTHER ->
                                 [f EXCEPT !.pc = "updated", !.outcome = outcome,
                                           !.respVersion = reports'[f.id].version]]
  /\ UNCHANGED <<auditLogs, now, lastCall>>

\* Mutant: the before state taken from the store when the entry is written.
PutAuditLate(p) ==
  /\ reqs[p].pc = "updated"
  /\ auditLogs' = addAuditLog(auditLogs,
       [userId |-> reqs[p].user, action |-> "update",
        resourceId |-> reqs[p].id,
        beforeVersion |-> reports[reqs[p].id].version,
        afterVersion |-> reqs[p].respVersion])
  /\ reqs' = [reqs EXCEPT ![p].pc = "audited"]
  /\ UNCHANGED <<reports, now, lastCall>>

\* After the store call: `await dataStore.addAuditLog(...)`.
PutAudit(p) ==
  /\ reqs[p].pc = "updated"
  /\ auditLogs' = addAuditLog(auditLogs,
       [userId |-> reqs[p].user, action |-> "update",
        resourceId |-> reqs[p].id,
        beforeVersion |-> reqs[p].current.version,
        afterVersion |-> reqs[p].respVersion])
  /\ reqs' = [reqs EXCEPT ![p].pc = "audited"]
  /\ UNCHANGED <<reports, now, lastCall>>

\* res.status(200).json({ ..., data: { report: { version, ... } } })
PutRespond(p) ==
  /\ reqs[p].pc = "audited"
  /\ reqs' = [reqs EXCEPT ![p] =
       Respond(reqs[p], 200, "Report updated successfully")]
  /\ UNCHANGED storeVars

\* ------------------------------------- POST /api/reports as mounted
\* router.post('/', [requireMinRole(EDITOR), validators...,
\* ReportsController.createReport]) with a body that passes the validators
\* and names no collaborators.
\* the POST requests of a run: one, which creates the report the PUT
\* requests address
PostIds == {1}

\* the senders of POST requests: the editor and the reader of the sample
\* data (a report of the editor is one the admin neither created nor
\* collaborates on)
PostUsers == {"user-2", "user-3"}

IdlePost == [pc |-> "idle", user |-> "none", id |-> "none", status |-> 0]

\* `{} as Report`: the report of the rule context of a creation
EmptyReport ==
  [isActive |-> FALSE, status |-> NoField, version |-> Absent,
   createdBy |-> "none", collaborators |-> {}, concurrentEditors |-> {},
   old |-> FALSE]

\* requireMinRole(EDITOR), then the controller up to the end of its first
\* store call: the rule check and dataStore.createReport.
PostArrive(s, u) ==
  /\ posts[s].pc = "idle"
  /\ \A r \in PostIds : r < s => posts[r].pc # "idle"
  /\ LET user == authenticateToken(u)
         rule == evaluateAllRules([user |-> user, report |-> EmptyReport,
                                   action |-> "create", fileSize |-> Absent])
         id == FreshId(reports)
         data == [status |-> "draft", createdBy |-> u, collaborators |-> {},
                  concurrentEditors |-> {}, lastModifiedBy |-> u,
                  lastModifiedAt |-> now, title |-> "t0"]
     IN IF ~hasRole(user.role, "editor") \/ ~rule.allowed
        THEN /\ posts' = [posts EXCEPT ![s] =
                            [pc |-> "done", user |-> u, id |-> "none",
                             status |-> 403]]
             /\ UNCHANGED reports
        ELSE /\ reports' = createReport(reports, id, data, now)
             /\ posts' = [posts EXCEPT ![s] =
                            [pc |-> "stored", user |-> u, id |-> id,
                             status |-> 0]]
  /\ UNCHANGED <<auditLogs, now, lastCall, reqs>>

\* `await dataStore.addAuditLog(...)` of the creation
PostAudit(s) ==
  /\ posts[s].pc = "stored"
  /\ auditLogs' = addAuditLog(auditLogs,
       [userId |-> posts[s].user, action |-> "create",
        resourceId |-> posts[s].id, beforeVersion |-> Absent,
        afterVersion |-> 1])
  /\ posts' = [posts EXCEPT ![s].pc = "audited"]
  /\ UNCHANGED <<reports, now, lastCall, reqs>>

\* Mutant: the creation answered with 500 while the breaker of its side
\* effect is open.
PostRespondCoupled(s) ==
  /\ posts[s].pc = "audited"
  /\ posts' = [posts EXCEPT ![s].pc = "done",
                            ![s].status =
                              IF \E k \in DOMAIN circuitBreakerStates :
                                   /\ circuitBreakerStates[k] # 0
                                   /\ cbHeap[circuitBreakerStates[k]].isOpen
                              THEN 500 ELSE 201]
  /\ UNCHANGED <<reports, auditLogs, now, lastCall, reqs>>

\* res.status(201).json(...)
PostRespond(s) ==
  /\ posts[s].pc = "audited"
  /\ posts' = [posts EXCEPT ![s].pc = "done", ![s].status = 201]
  /\ UNCHANGED <<reports, auditLogs, now, lastCall, reqs>>

\* --------------------------- POST /api/reports/:id/attachment as mounted
\* app.use('/api/reports', authenticateToken, attachmentRoutes) and
\* router.post('/:id/attachment', [requireMinRole(EDITOR),
\* param('id').isUUID(), upload.single('file')], uploadAttachment).
UploadIds == 1 .. MaxUploads

\* InMemoryStore.users after construction: the usage and tier of the three
\* sample users
sampleUsers ==
  [u \in Users |->
     [storageUsed |-> CASE u = "user-1" -> 0
                        [] u = "user-2" -> 52428800
                        [] OTHER        -> 10485760,
      tier |-> UserTier[u]]]

\* file.size of the uploaded file in bytes (60 MB, 200 MB; Absent: the
\* request carries no file).  All are within multer's limits.fileSize.
FileSizes == {Absent, 62914560, 209715200}

IdleUpload ==
  [pc |-> "idle", user |-> "none", id |-> "none", size |-> Absent,
   report |-> NoReport, status |-> 0, message |-> ""]

\* requireMinRole(EDITOR), the validator, multer, then the controller up to
\* its first suspension: `await dataStore.getReport(id)`.
UploadArrive(n, u, id, size) ==
  /\ uploads[n].pc = "idle"
  /\ \A k \in UploadIds : k < n => uploads[k].pc # "idle"
  /\ LET user == authenticateToken(u)
         frame == [uploads[n] EXCEPT !.user = u]
     IN uploads' = [uploads EXCEPT ![n] =
          IF ~hasRole(user.role, "editor")
          THEN Respond(frame, 403,
                 "Insufficient permissions. Minimum role required: editor")
          ELSE IF ~isUUID(id) \/ size = Absent
               THEN Respond(frame, 400, "Validation failed")
               ELSE [frame EXCEPT !.pc = "gotReport", !.id = id,
                        !.size = size,
                        !.report = IF HasReport(reports, id)
                                   THEN reports[id] ELSE NoReport]]
  /\ UNCHANGED <<users, attachments, storeVars, reqs, posts>>

\* From the result of getReport to the next suspension: not found, the rule
\* check with req.user, then dataStore.createAttachment.
UploadCreate(n) ==
  /\ uploads[n].pc = "gotReport"
  /\ LET f == uploads[n]
         rule == evaluateAllRules([user |-> authenticateToken(f.user),
                                   report |-> f.report, action |-> "upload",
                                   fileSize |-> f.size])
     IN IF ~f.report.isActive
        THEN /\ uploads' = [uploads EXCEPT ![n] =
                              Respond(f, 404, "Report not found")]
             /\ UNCHANGED attachments
        ELSE IF ~rule.allowed
             THEN /\ uploads' = [uploads EXCEPT ![n] =
                                   Respond(f, 403, rule.reason)]
                  /\ UNCHANGED attachments
             ELSE /\ attachments' = Append(attachments,
                        [reportId |-> f.id, size |-> f.size,
                         uploadedBy |-> f.user, isActive |-> TRUE])
                  /\ uploads' = [uploads EXCEPT ![n].pc = "created"]
  /\ UNCHANGED <<users, storeVars, reqs, posts>>

\* dataStore.updateUserStorage(id, newStorageUsed)
updateUserStorage(us, id, newStorageUsed) ==
  [us EXCEPT ![id].storageUsed = newStorageUsed]

\* Mutant: the usage taken from req.user, not from the stored user.
UploadAccountFromToken(n) ==
  /\ uploads[n].pc = "created"
  /\ LET f == uploads[n]
         newStorageUsed == authenticateToken(f.user).storageUsed + f.size
     IN users' = updateUserStorage(users, f.user, newStorageUsed)
  /\ uploads' = [uploads EXCEPT ![n].pc = "accounted"]
  /\ UNCHANGED <<attachments, storeVars, reqs, posts>>

\* After createAttachment: getUser hands back the stored user object, and
\* once that await resumes the usage read from it plus file.size is written
\* by updateUserStorage.
UploadAccount(n) ==
  /\ uploads[n].pc = "created"
  /\ LET f == uploads[n]
         currentUser == users[f.user]
         newStorageUsed == currentUser.storageUsed + f.size
     IN users' = updateUserStorage(users, f.user, newStorageUsed)
  /\ uploads' = [uploads EXCEPT ![n].pc = "accounted"]
  /\ UNCHANGED <<attachments, storeVars, reqs, posts>>

\* `await dataStore.addAuditLog(...)` of the upload
UploadAudit(n) ==
  /\ uploads[n].pc = "accounted"
  /\ auditLogs' = addAuditLog(auditLogs,
       [userId |-> uploads[n].user, action |-> "upload_attachment",
        resourceId |-> uploads[n].id, beforeVersion |-> Absent,
        afterVersion |-> Absent])
  /\ uploads' = [uploads EXCEPT ![n].pc = "audited"]
  /\ UNCHANGED <<users, attachments, reports, now, lastCall, reqs, posts>>

\* res.status(201).json(...)
UploadRespond(n) ==
  /\ uploads[n].pc = "audited"
  /\ uploads' = [uploads EXCEPT ![n] =
       Respond(uploads[n], 201, "Attachment uploaded successfully")]
  /\ UNCHANGED <<users, attachments, storeVars, reqs, posts>>

\* ------------------------------------------------ idempotencyMiddleware
\* The middleware as defined in middleware/idempotency.ts, in front of a
\* handler that answers with res.status(st).json(body).  Header values are
\* sequences of characters (<<>>: no header), so that the pattern the
\* middleware tests is computed character by character.
\* a version-4 UUID in lower case
KeyLower ==
  <<"6", "f", "1", "b", "6", "c", "1", "e", "-", "0", "c", "0", "e", "-",
    "4", "b", "7", "a", "-", "9", "d", "4", "6", "-", "0", "d", "1", "c",
    "2", "a", "3", "b", "4", "c", "5", "d">>

\* the same in upper case (the pattern has the flag i)
KeyUpper ==
  <<"6", "F", "1", "B", "6", "C", "1", "E", "-", "0", "C", "0", "E", "-",
    "4", "B", "7", "A", "-", "9", "D", "4", "6", "-", "0", "D", "1", "C",
    "2", "A", "3", "B", "4", "C", "5", "D">>

\* a UUID whose version digit is 1
KeyVersion1 ==
  <<"6", "f", "1", "b", "6", "c", "1", "e", "-", "0", "c", "0", "e", "-",
    "1", "b", "7", "a", "-", "9", "d", "4", "6", "-", "0", "d", "1", "c",
    "2", "a", "3", "b", "4", "c", "5", "d">>

\* a UUID whose variant digit is c
KeyVariantC ==
  <<"6", "f", "1", "b", "6", "c", "1", "e", "-", "0", "c", "0", "e", "-",
    "4", "b", "7", "a", "-", "c", "d", "4", "6", "-", "0", "d", "1", "c",
    "2", "a", "3", "b", "4", "c", "5", "d">>

\* one character short
KeyShort ==
  <<"6", "f", "1", "b", "6", "c", "1", "e", "-", "0", "c", "0", "e", "-",
    "4", "b", "7", "a", "-", "9", "d", "4", "6", "-", "0", "d", "1", "c",
    "2", "a", "3", "b", "4", "c", "5">>

\* a character that is no hex digit
KeyNonHex ==
  <<"g", "f", "1", "b", "6", "c", "1", "e", "-", "0", "c", "0", "e", "-",
    "4", "b", "7", "a", "-", "9", "d", "4", "6", "-", "0", "d", "1", "c",
    "2", "a", "3", "b", "4", "c", "5", "d">>

IdemKeys ==
  {<<>>, KeyLower, KeyUpper, KeyVersion1, KeyVariantC, KeyShort, KeyNonHex}

HexDigits ==
  {"0", "1", "2", "3", "4", "5", "6", "7", "8", "9",
   "a", "b", "c", "d", "e", "f", "A", "B", "C", "D", "E", "F"}

\* Mutant: any UUID, whatever its version and variant.
matchesUuidV4AnyVersion(k) ==
  /\ Len(k) = 36
  /\ \A i \in 1 .. 36 :
       IF i \in {9, 14, 19, 24} THEN k[i] = "-" ELSE k[i] \in HexDigits

\* /^[0-9a-f]{8}-[0-9a-f]{4}-[4][0-9a-f]{3}-[89ab][0-9a-f]{3}-[0-9a-f]{12}$/i
matchesUuidV4(k) ==
  /\ Len(k) = 36
  /\ \A i \in 1 .. 36 :
       IF i \in {9, 14, 19, 24} THEN k[i] = "-"
       ELSE IF i = 15 THEN k[i] = "4"
       ELSE IF i = 20 THEN k[i] \in {"8", "9", "a", "b", "A", "B"}
       ELSE k[i] \in HexDigits

\* the status codes the handler answers with
HandlerStatuses == {200, 201, 404, 500}

IdemReqIds == 1 .. MaxReqs

IdleIdem ==
  [pc |-> "idle", key |-> <<>>, sender |-> <<>>, caching |-> FALSE,
   hit |-> FALSE, handled |-> FALSE, status |-> 0, body |-> 0]

\* who sends a request, to which route, with which body: a request and the
\* requests that differ from it in the actor, in the route and in the body
IdemSenders ==
  { [actor |-> "user-1", route |-> "PUT /api/reports/:id", body |-> "t1"],
    [actor |-> "user-2", route |-> "PUT /api/reports/:id", body |-> "t1"],
    [actor |-> "user-1", route |-> "POST /api/reports", body |-> "t1"],
    [actor |-> "user-1", route |-> "PUT /api/reports/:id", body |-> "t2"] }

\* new LRUCache(...): a map from keys to entries, empty
EmptyCache == <<>>

\* idempotencyCache.set(key, entry)
cacheSet(cache, key, entry) ==
  [k \in DOMAIN cache \cup {key} |-> IF k = key THEN entry ELSE cache[k]]

\* the cache without the entry of key
cacheDelete(cache, key) == [k \in DOMAIN cache \ {key} |-> cache[k]]

\* Mutant: the entries kept apart by the actor of the request.
cacheKeyPerActor(key, sender) == key \o <<sender.actor>>

\* the key of the cache entry of a request: the header value as it came,
\* `idempotencyCache.get(idempotencyKey)` / `.set(idempotencyKey, ...)`
cacheKey(key, sender) == key

\* The middleware up to next(): no key, a malformed key (400), a cached
\* response (replayed), or res.json overridden before the handler runs.
IdemArrive(r, key, sender) ==
  /\ ireqs[r].pc = "idle"
  /\ \A q \in IdemReqIds : q < r => ireqs[q].pc # "idle"
  /\ LET f == [ireqs[r] EXCEPT !.key = key, !.sender = <<sender>>]
         entry == cacheKey(key, sender)
     IN ireqs' = [ireqs EXCEPT ![r] =
          IF key = <<>> THEN [f EXCEPT !.pc = "handling"]
          ELSE IF ~matchesUuidV4(key)
               THEN [f EXCEPT !.pc = "done", !.status = 400]
               ELSE IF entry \in DOMAIN idempotencyCache
                    THEN [f EXCEPT !.pc = "done", !.hit = TRUE,
                            !.status = idempotencyCache[entry].status,
                            !.body = idempotencyCache[entry].body]
                    ELSE [f EXCEPT !.pc = "handling", !.caching = TRUE]]
  /\ UNCHANGED idempotencyCache

\* The handler answers: res.status(st).json(body), through the overridden
\* res.json when the middleware installed it.
HandlerRespond(r, st) ==
  /\ ireqs[r].pc = "handling"
  /\ idempotencyCache' =
       IF ireqs[r].caching /\ IsSuccess(st)
       THEN cacheSet(idempotencyCache,
                     cacheKey(ireqs[r].key, ireqs[r].sender[1]),
                     [status |-> st, body |-> r])
       ELSE idempotencyCache
  /\ ireqs' = [ireqs EXCEPT ![r].pc = "done", ![r].handled = TRUE,
                            ![r].status = st, ![r].body = r]

\* An entry leaves the cache: its ttl has run out, or it was evicted.
Expire(key) ==
  /\ key \in DOMAIN idempotencyCache
  /\ idempotencyCache' = cacheDelete(idempotencyCache, key)
  /\ UNCHANGED ireqs

\* clearIdempotencyCache()
clearIdempotencyCache ==
  /\ idempotencyCache' = EmptyCache
  /\ UNCHANGED ireqs

\* ------------------------------------------------ executeAsyncSideEffect
Kinds == {"report_creation_side_effect"}

\* the operation names that have an entry or may get one: the controller's
\* name and a second one
AllKinds == Kinds \cup {"operation_2"}

CallIds == 1 .. MaxCalls

Undefined == "undefined"

\* what a resolved operation hands back
OperationResult == "result"

IdleCall ==
  [pc |-> "idle", kind |-> "none", ref |-> 0, i |-> 0, maxRetries |-> 0,
   jitter |-> FALSE, rejected |-> 0, invocations |-> 0, wakeAt |-> 0,
   result |-> Undefined, startOpen |-> FALSE, startGap |-> "na",
   cbAtReturn |-> <<>>]

\* { failures: 0, isOpen: false, lastFailureTime: 0 }
NewBreaker == [failures |-> 0, isOpen |-> FALSE, lastFailureTime |-> 0]

\* getCircuitBreakerStatus: the state object of the map entry, or null
\* (<<>> for null, <<state>> otherwise)
getCircuitBreakerStatus(map, heap, kind) ==
  IF map[kind] = 0 THEN <<>> ELSE <<heap[map[kind]]>>

\* Mutant: the comparison of the half-open test turned around.
resetElapsedReversed(t, st) == t - st.lastFailureTime < CircuitBreakerResetMs

\* Mutant: the reset interval taken in seconds.
resetElapsedSeconds(t, st) ==
  t - st.lastFailureTime > CircuitBreakerResetMs * 1000

\* the half-open test of the breaker check: now - lastFailureTime > resetMs
resetElapsed(t, st) == t - st.lastFailureTime > CircuitBreakerResetMs

\* Mutant: the breaker opens only above the threshold.
recordFailureAbove(st, t) ==
  LET failures == st.failures + 1
  IN [failures |-> failures,
      isOpen |-> st.isOpen \/ failures > CircuitBreakerThreshold,
      lastFailureTime |-> t]

\* the breaker after a failed attempt at time t
recordFailure(st, t) ==
  LET failures == st.failures + 1
  IN [failures |-> failures,
      isOpen |-> st.isOpen \/ failures >= CircuitBreakerThreshold,
      lastFailureTime |-> t]

\* Mutant: a success closes the breaker but keeps the failure count.
recordSuccessKeepCount(st) == [st EXCEPT !.isOpen = FALSE]

\* the breaker after a successful attempt
recordSuccess(st) == [st EXCEPT !.failures = 0, !.isOpen = FALSE]

\* Mutant: one retry too many.
attemptsRemainInclusive(i, maxRetries) == i <= maxRetries

\* `if (i < maxRetries)`: not the last attempt of the loop
attemptsRemain(i, maxRetries) == i < maxRetries

\* backoffMs * 2^i, then, with jitter, times (0.5 + Math.random()):
\* the whole-tick delays d with 0.5 * base <= d < 1.5 * base
Pow2(n) == IF n = 0 THEN 1 ELSE IF n = 1 THEN 2 ELSE IF n = 2 THEN 4 ELSE 8

backoffDelays(i, jitter) ==
  LET base == BackoffMs * Pow2(i)
  IN IF jitter THEN {d \in 1 .. 2 * base : 2 * d >= base /\ 2 * d < 3 * base}
     ELSE {base}

\* setTimeout(resolve, delay): the instant the timer is due.  Timers due
\* after the last modelled instant never fire and are not told apart.
timerDue(t, d) == IF t + d > MaxNow THEN MaxNow + 1 ELSE t + d

\* how the gap since the last failure compares with the reset interval
GapClass(t, st) ==
  IF t - st.lastFailureTime < CircuitBreakerResetMs THEN "lt"
  ELSE IF t - st.lastFailureTime = CircuitBreakerResetMs THEN "eq" ELSE "gt"

\* what a caller reads off the status when the call returns
StatusView(status) ==
  IF status = <<>> THEN <<>> ELSE <<status[1].failures, status[1].isOpen>>

\* Mutant: the failure handed on to the caller in the place of
\* `return undefined`.
ReturnedRethrow(frame, res, map, heap) ==
  [frame EXCEPT !.pc = "done",
                !.result = IF res = Undefined THEN "error" ELSE res,
                !.ref = 0, !.i = 0, !.jitter = FALSE, !.wakeAt = 0,
                !.cbAtReturn = StatusView(
                                 getCircuitBreakerStatus(map, heap, frame.kind))]

\* The frame of a call that has returned `res` to its caller.
Returned(frame, res, map, heap) ==
  [frame EXCEPT !.pc = "done", !.result = res, !.ref = 0, !.i = 0,
                !.jitter = FALSE, !.wakeAt = 0,
                !.cbAtReturn = StatusView(
                                 getCircuitBreakerStatus(map, heap, frame.kind))]

\* The frames once a call returns: what its caller observed is kept for the
\* call that returned last; the frames of the calls that returned before it
\* are gone.
Forgotten == [IdleCall EXCEPT !.pc = "forgotten"]

Forget(cs) ==
  [d \in CallIds |-> IF cs[d].pc = "done" THEN Forgotten ELSE cs[d]]

\* The call up to its first suspension: get or create the state object, the
\* breaker check (fail fast, or the half-open transition), then the first
\* `operation()` of the retry loop.
Start(c, kind, maxRetries, jitter) ==
  /\ calls[c].pc = "idle"
  /\ \A d \in CallIds : d < c => calls[d].pc # "idle"
  /\ LET heap1 == IF circuitBreakerStates[kind] = 0
                  THEN Append(cbHeap, NewBreaker) ELSE cbHeap
         ref == IF circuitBreakerStates[kind] = 0
                THEN Len(heap1) ELSE circuitBreakerStates[kind]
         map1 == [circuitBreakerStates EXCEPT ![kind] = ref]
         st == heap1[ref]
         frame == [calls[c] EXCEPT !.kind = kind, !.ref = ref,
                     !.maxRetries = maxRetries, !.jitter = jitter,
                     !.startOpen = st.isOpen,
                     !.startGap = IF st.isOpen THEN GapClass(now, st)
                                  ELSE "na"]
     IN /\ circuitBreakerStates' = map1
        /\ IF st.isOpen /\ ~resetElapsed(now, st)
           THEN /\ cbHeap' = heap1
                /\ calls' = [Forget(calls) EXCEPT ![c] =
                               Returned(frame, Undefined, map1, heap1)]
                /\ UNCHANGED streak
           ELSE /\ cbHeap' = IF st.isOpen
                             THEN [heap1 EXCEPT ![ref].isOpen = FALSE,
                                                ![ref].failures = 0]
                             ELSE heap1
                /\ streak' = IF st.isOpen \/ circuitBreakerStates[kind] = 0
                             THEN [streak EXCEPT ![kind] = 0] ELSE streak
                /\ calls' = [calls EXCEPT ![c] =
                               [frame EXCEPT !.pc = "invoking",
                                             !.invocations = 1]]
  /\ UNCHANGED <<deadLetters, now, reports, auditLogs, lastCall, reqs>>

\* The awaited operation settles, resolved or rejected as the operation
\* handed in decides (`rejected` counts its rejections).  Resolved: the breaker is reset and the
\* result returned.  Rejected: the failure is counted, the breaker opened at
\* the threshold, and either the backoff timer is set or, after the last
\* attempt, simulateDeadLetterQueue is called.
Settle(c, resolved) ==
  /\ calls[c].pc = "invoking"
  /\ LET f == calls[c]
         st == cbHeap[f.ref]
     IN IF resolved
        THEN /\ cbHeap' = [cbHeap EXCEPT ![f.ref] = recordSuccess(st)]
             /\ streak' = [streak EXCEPT ![f.kind] = 0]
             /\ calls' = [Forget(calls) EXCEPT ![c] =
                            Returned(f, OperationResult, circuitBreakerStates,
                                     cbHeap')]
             /\ UNCHANGED deadLetters
        ELSE /\ cbHeap' = [cbHeap EXCEPT ![f.ref] = recordFailure(st, now)]
             /\ streak' = [streak EXCEPT ![f.kind] = @ + 1]
             /\ IF attemptsRemain(f.i, f.maxRetries)
                THEN /\ \E d \in backoffDelays(f.i, f.jitter) :
                          calls' = [calls EXCEPT ![c].pc = "backoff",
                                                 ![c].rejected = @ + 1,
                                                 ![c].wakeAt = timerDue(now, d)]
                     /\ UNCHANGED deadLetters
                ELSE /\ calls' = [calls EXCEPT ![c].pc = "deadLetter",
                                                 ![c].rejected = @ + 1]
                     /\ deadLetters' = [deadLetters EXCEPT ![c] = @ + 1]
  /\ UNCHANGED <<circuitBreakerStates, now, reports, auditLogs, lastCall, reqs>>

\* The backoff timer fires: the next iteration of the loop calls the
\* operation again.
TimerFire(c) ==
  /\ calls[c].pc = "backoff"
  /\ now >= calls[c].wakeAt
  /\ calls' = [calls EXCEPT ![c].pc = "invoking", ![c].i = @ + 1,
                            ![c].invocations = @ + 1]
  /\ UNCHANGED <<circuitBreakerStates, cbHeap, deadLetters, streak, now,
                 reports, auditLogs, lastCall, reqs>>

\* simulateDeadLetterQueue has returned: `return undefined`.
DeadLetterReturn(c) ==
  /\ calls[c].pc = "deadLetter"
  /\ calls' = [Forget(calls) EXCEPT ![c] =
                 Returned(calls[c], Undefined, circuitBreakerStates, cbHeap)]
  /\ UNCHANGED <<circuitBreakerStates, cbHeap, deadLetters, streak, now,
                 reports, auditLogs, lastCall, reqs>>

\* Mutant: the entry left in place by the reset.
resetCircuitBreakerKeep(map, kind) == map

\* Mutant: circuitBreakerStates.clear() in the place of delete(name).
resetCircuitBreakerClear(map, kind) == [k \in DOMAIN map |-> 0]

\* resetCircuitBreaker: circuitBreakerStates.delete(operationName)
resetCircuitBreaker(map, kind) == [map EXCEPT ![kind] = 0]

\* A manual reset.  The state object stays with the calls that hold it.
Reset(kind) ==
  /\ circuitBreakerStates' = resetCircuitBreaker(circuitBreakerStates, kind)
  /\ UNCHANGED <<cbHeap, calls, deadLetters, streak, now, reports, auditLogs,
                 lastCall, reqs>>

\* the store or breaker call made last, as its caller saw it
NoCall == [op |-> "none", id |-> "none", version |-> Absent, outcome |-> "none"]

\* resetCircuitBreaker as the operator or a test calls it: the call is noted
\* in lastCall, the state object is left to the calls that hold it
ManualReset(kind) ==
  /\ circuitBreakerStates' = resetCircuitBreaker(circuitBreakerStates, kind)
  /\ lastCall' = [NoCall EXCEPT !.op = "resetCircuitBreaker", !.id = kind]
  /\ UNCHANGED <<cbHeap, calls, deadLetters, streak, now, reports, auditLogs,
                 reqs>>

\* clearAllCircuitBreakers: circuitBreakerStates.clear()
clearAllCircuitBreakers(map) == [k \in DOMAIN map |-> 0]

ClearAll ==
  /\ circuitBreakerStates' = clearAllCircuitBreakers(circuitBreakerStates)
  /\ lastCall' = [NoCall EXCEPT !.op = "clearAllCircuitBreakers"]
  /\ UNCHANGED <<cbHeap, calls, deadLetters, streak, now, reports, auditLogs,
                 reqs>>

\* time passes
Tick ==
  /\ now < MaxNow
  /\ now' = now + 1
  /\ UNCHANGED <<reports, auditLogs, lastCall, reqs, circuitBreakerStates,
                 cbHeap, calls, deadLetters, streak>>

\* ------------------------------------------- SpecStore: direct store calls
\* the caller named in lastModifiedBy (the admin of the sample data)
StoreUsers == {"user-1"}

StoreIds == {"report-1", "new-1", "new-2"}

\* Partial<Report> as passed to updateReport: an expected version (absent,
\* 0, or a positive number) and one other field.
UpdateInputs ==
  [version : {Absent} \cup (0 .. MaxVersion), title : {NoField, "t1"},
   status : {NoField}, concurrentEditors : {<<>>}]

StoreCreate(u) ==
  /\ NumCreated(reports) < MaxCreated
  /\ LET id == FreshId(reports)
         data == [status |-> "draft", createdBy |-> u, collaborators |-> {},
                  concurrentEditors |-> {}, lastModifiedBy |-> u,
                  lastModifiedAt |-> now, title |-> "t0"]
     IN /\ reports' = createReport(reports, id, data, now)
        /\ lastCall' = [op |-> "createReport", id |-> id, version |-> Absent,
                        outcome |-> "ok"]
  /\ UNCHANGED <<auditLogs, now>>

StoreUpdate(id, updates, u) ==
  /\ HasReport(reports, id) => reports[id].version < MaxVersion
  /\ reports' = updateReport(reports, id, updates, u, now)
  /\ lastCall' = [op |-> "updateReport", id |-> id,
                  version |-> updates.version,
                  outcome |-> updateReportOutcome(reports, id, updates)]
  /\ UNCHANGED <<auditLogs, now>>

StoreDelete(id) ==
  /\ reports' = deleteReport(reports, id, now)
  /\ lastCall' = [op |-> "deleteReport", id |-> id, version |-> Absent,
                  outcome |-> IF id \in DOMAIN reports THEN "ok" ELSE "NotFound"]
  /\ UNCHANGED <<auditLogs, now>>

StoreAutoArchive ==
  /\ reports' = autoArchiveOldReports(reports, now)
  /\ lastCall' = [op |-> "autoArchiveOldReports", id |-> "none",
                  version |-> Absent, outcome |-> "ok"]
  /\ UNCHANGED <<auditLogs, now>>

\* The state after construction.  Whether report-1 (created 2024-01-15) is
\* older than two years depends on the day the process runs.
InitCore ==
  /\ \E o \in BOOLEAN :
       reports = [initializeSampleData EXCEPT !["report-1"].old = o]
  /\ auditLogs = <<>>
  /\ now = 1
  /\ lastCall = NoCall
  /\ reqs = [p \in ReqIds |-> IdleReq]
  /\ circuitBreakerStates = [k \in AllKinds |-> 0]
  /\ cbHeap = <<>>
  /\ calls = [c \in CallIds |-> IdleCall]
  /\ deadLetters = [c \in CallIds |-> 0]
  /\ streak = [k \in AllKinds |-> 0]
  /\ posts = [s \in PostIds |-> IdlePost]
  /\ users = sampleUsers
  /\ attachments = <<>>
  /\ uploads = [n \in UploadIds |-> IdleUpload]
  /\ idempotencyCache = EmptyCache
  /\ ireqs = [r \in IdemReqIds |-> IdleIdem]

\* ... with no rule evaluation asked for outside a request
InitCommon == InitCore /\ ruleCtx = <<>> /\ ruleResult = <<>>

execVars == <<circuitBreakerStates, cbHeap, calls, deadLetters, streak>>

vars == <<reports, auditLogs, now, lastCall, reqs, circuitBreakerStates,
          cbHeap, calls, deadLetters, streak, posts, users, attachments,
          uploads, idempotencyCache, ireqs, ruleCtx, ruleResult>>

\* what the store calls, the PUT chain and the executor leave alone
laterVars == <<posts, uploadVars, idemVars, rulesVars>>

NextStore ==
  \/ \E u \in StoreUsers :
       StoreCreate(u) /\ UNCHANGED <<reqs, execVars, laterVars>>
  \/ \E id \in StoreIds, updates \in UpdateInputs, u \in StoreUsers :
       StoreUpdate(id, updates, u) /\ UNCHANGED <<reqs, execVars, laterVars>>
  \/ \E id \in StoreIds :
       StoreDelete(id) /\ UNCHANGED <<reqs, execVars, laterVars>>
  \/ StoreAutoArchive /\ UNCHANGED <<reqs, execVars, laterVars>>

SpecStore == InitCommon /\ [][NextStore]_vars

NextApi ==
  \/ \E p \in ReqIds, u \in Users, id \in ApiIds, body \in Bodies, key \in Keys :
       PutArrive(p, u, id, body, key) /\ UNCHANGED <<execVars, laterVars>>
  \/ \E p \in ReqIds : PutApply(p) /\ UNCHANGED <<execVars, laterVars>>
  \/ \E p \in ReqIds : PutAudit(p) /\ UNCHANGED <<execVars, laterVars>>
  \/ \E p \in ReqIds : PutRespond(p) /\ UNCHANGED <<execVars, laterVars>>
  \/ \E s \in PostIds, u \in PostUsers :
       PostArrive(s, u) /\ UNCHANGED <<execVars, uploadVars, idemVars, rulesVars>>
  \/ \E s \in PostIds :
       PostAudit(s) /\ UNCHANGED <<execVars, uploadVars, idemVars, rulesVars>>
  \/ \E s \in PostIds :
       PostRespond(s) /\ UNCHANGED <<execVars, uploadVars, idemVars, rulesVars>>

SpecApi == InitCommon /\ [][NextApi]_vars

\* Calls as the controller makes them, with jitter: the delays with jitter
\* include the delay without it.
NextExec ==
  \/ \E c \in CallIds, kind \in Kinds, maxRetries \in 0 .. MaxRetriesBound :
       Start(c, kind, maxRetries, TRUE) /\ UNCHANGED laterVars
  \/ \E c \in CallIds, resolved \in BOOLEAN :
       Settle(c, resolved) /\ UNCHANGED laterVars
  \/ \E c \in CallIds : TimerFire(c) /\ UNCHANGED laterVars
  \/ \E c \in CallIds : DeadLetterReturn(c) /\ UNCHANGED laterVars
  \/ Tick /\ UNCHANGED laterVars

InitExec == InitCommon /\ reports = initializeSampleData

\* Calls of two operation names next to manual resets (the calls with the
\* largest number of retries, without jitter).
NextKinds ==
  \/ \E c \in CallIds, kind \in AllKinds :
       Start(c, kind, MaxRetriesBound, FALSE) /\ UNCHANGED laterVars
  \/ \E c \in CallIds, resolved \in BOOLEAN :
       Settle(c, resolved) /\ UNCHANGED laterVars
  \/ \E c \in CallIds : TimerFire(c) /\ UNCHANGED laterVars
  \/ \E c \in CallIds : DeadLetterReturn(c) /\ UNCHANGED laterVars
  \/ \E kind \in AllKinds : Reset(kind) /\ UNCHANGED laterVars
  \/ Tick /\ UNCHANGED laterVars

SpecKinds == InitExec /\ [][NextKinds]_vars

\* Calls of two operation names without retries next to the operator's
\* resetCircuitBreaker and clearAllCircuitBreakers, all within one instant.
NextBreakers ==
  \/ \E c \in CallIds, kind \in AllKinds :
       Start(c, kind, 0, FALSE) /\ UNCHANGED laterVars
  \/ \E c \in CallIds, resolved \in BOOLEAN :
       Settle(c, resolved) /\ UNCHANGED laterVars
  \/ \E c \in CallIds : DeadLetterReturn(c) /\ UNCHANGED laterVars
  \/ \E kind \in AllKinds : ManualReset(kind) /\ UNCHANGED laterVars
  \/ ClearAll /\ UNCHANGED laterVars

SpecBreakers == InitExec /\ [][NextBreakers]_vars

\* POST /api/reports with the side effect it schedules.  setImmediate runs
\* the callback after the handler has answered: the executor call of the
\* request (the call started last) starts once the 201 is sent, with the
\* jitter the controller asks for.  The calls before it are calls under the
\* same operation name that the request did not make.
SideEffectStart(maxRetries) ==
  /\ \E s \in PostIds : posts[s].pc = "done" /\ posts[s].status = 201
  /\ \E kind \in Kinds : Start(MaxCalls, kind, maxRetries, TRUE)

NextCreate ==
  \/ \E s \in PostIds, u \in PostUsers :
       PostArrive(s, u) /\ UNCHANGED <<execVars, uploadVars, idemVars, rulesVars>>
  \/ \E s \in PostIds :
       PostAudit(s) /\ UNCHANGED <<execVars, uploadVars, idemVars, rulesVars>>
  \/ \E s \in PostIds :
       PostRespond(s) /\ UNCHANGED <<execVars, uploadVars, idemVars, rulesVars>>
  \/ \E maxRetries \in 0 .. MaxRetriesBound :
       SideEffectStart(maxRetries) /\ UNCHANGED laterVars
  \/ \E c \in CallIds \ {MaxCalls}, kind \in Kinds :
       Start(c, kind, MaxRetriesBound, TRUE) /\ UNCHANGED laterVars
  \/ \E c \in CallIds, resolved \in BOOLEAN :
       Settle(c, resolved) /\ UNCHANGED laterVars
  \/ \E c \in CallIds : TimerFire(c) /\ UNCHANGED laterVars
  \/ \E c \in CallIds : DeadLetterReturn(c) /\ UNCHANGED laterVars
  \/ Tick /\ UNCHANGED laterVars

SpecCreate == InitExec /\ [][NextCreate]_vars

SpecExec == InitExec /\ [][NextExec]_vars

\* PUT bodies that name the concurrent editors of the report (no validator
\* of the route looks at the field; <<>>: the body has no such field): four
\* ids, none of a sample user
EditorBodies ==
  [version : {Absent}, title : {"t1"}, status : {NoField},
   concurrentEditors : {<<>>, <<{"e-1", "e-2", "e-3", "e-4"}>>}]

\* One POST that creates a report, and PUT requests for it whose bodies may
\* carry concurrentEditors
NextEditors ==
  \/ \E p \in ReqIds, u \in Users, id \in ApiIds, body \in EditorBodies,
        key \in Keys :
       PutArrive(p, u, id, body, key) /\ UNCHANGED <<execVars, laterVars>>
  \/ \E p \in ReqIds : PutApply(p) /\ UNCHANGED <<execVars, laterVars>>
  \/ \E p \in ReqIds : PutAudit(p) /\ UNCHANGED <<execVars, laterVars>>
  \/ \E p \in ReqIds : PutRespond(p) /\ UNCHANGED <<execVars, laterVars>>
  \/ \E s \in PostIds, u \in PostUsers :
       PostArrive(s, u) /\ UNCHANGED <<execVars, uploadVars, idemVars, rulesVars>>
  \/ \E s \in PostIds :
       PostAudit(s) /\ UNCHANGED <<execVars, uploadVars, idemVars, rulesVars>>
  \/ \E s \in PostIds :
       PostRespond(s) /\ UNCHANGED <<execVars, uploadVars, idemVars, rulesVars>>

SpecEditors == InitCommon /\ [][NextEditors]_vars

\* One POST that creates a report, and uploads to it
NextUpload ==
  \/ \E s \in PostIds, u \in PostUsers :
       PostArrive(s, u) /\ UNCHANGED <<execVars, uploadVars, idemVars, rulesVars>>
  \/ \E s \in PostIds :
       PostAudit(s) /\ UNCHANGED <<execVars, uploadVars, idemVars, rulesVars>>
  \/ \E s \in PostIds :
       PostRespond(s) /\ UNCHANGED <<execVars, uploadVars, idemVars, rulesVars>>
  \/ \E n \in UploadIds, u \in Users, id \in ApiIds, size \in FileSizes :
       UploadArrive(n, u, id, size) /\ UNCHANGED <<execVars, idemVars, rulesVars>>
  \/ \E n \in UploadIds :
       UploadCreate(n) /\ UNCHANGED <<execVars, idemVars, rulesVars>>
  \/ \E n \in UploadIds :
       UploadAccount(n) /\ UNCHANGED <<execVars, idemVars, rulesVars>>
  \/ \E n \in UploadIds :
       UploadAudit(n) /\ UNCHANGED <<execVars, idemVars, rulesVars>>
  \/ \E n \in UploadIds :
       UploadRespond(n) /\ UNCHANGED <<execVars, idemVars, rulesVars>>

SpecUpload == InitCommon /\ [][NextUpload]_vars

\* the senders of the requests of a key: the requests that reach the cache
\* come from every sender, the others (no key, a malformed key) from one
SendersOf(key) ==
  IF key # <<>> /\ matchesUuidV4(key) THEN IdemSenders
  ELSE {[actor |-> "user-1", route |-> "PUT /api/reports/:id", body |-> "t1"]}

\* Requests through the idempotency middleware and its handler
NextIdem ==
  \/ \E r \in IdemReqIds, key \in IdemKeys :
       \E sender \in SendersOf(key) : IdemArrive(r, key, sender)
       /\ UNCHANGED <<storeVars, reqs, execVars, posts, uploadVars, rulesVars>>
  \/ \E r \in IdemReqIds, st \in HandlerStatuses :
       HandlerRespond(r, st)
       /\ UNCHANGED <<storeVars, reqs, execVars, posts, uploadVars, rulesVars>>
  \/ \E key \in IdemKeys :
       Expire(key)
       /\ UNCHANGED <<storeVars, reqs, execVars, posts, uploadVars, rulesVars>>
  \/ clearIdempotencyCache
       /\ UNCHANGED <<storeVars, reqs, execVars, posts, uploadVars, rulesVars>>

SpecIdem == InitCommon /\ [][NextIdem]_vars

\* ------------------------------ SpecRules: BusinessRulesService by itself
\* The contexts evaluateAllRules is applied to: a user object (any pairing
\* of id, role, tier and usage), a report (status, creator, collaborators,
\* concurrent editors, age), an action and the size of the resource.
RuleUsers ==
  [id : {"user-1", "user-2"}, role : {"reader", "editor", "admin"},
   tier : {"default", "premium"}, storageUsed : {0, DefaultUserQuota}]

EditorPool == {"user-1", "e-1", "e-2", "e-3"}

RuleReports ==
  [status : {"draft", "archived"}, createdBy : {"user-1", "user-2"},
   collaborators : SUBSET {"user-1"}, concurrentEditors : SUBSET EditorPool,
   old : BOOLEAN]

RuleContexts ==
  [user : RuleUsers, report : RuleReports,
   action : {"update", "upload", "create"},
   fileSize : {Absent, 0, 1, PremiumUserQuota}]

InitRules ==
  /\ InitCore
  /\ reports = initializeSampleData
  /\ ruleCtx \in RuleContexts
  /\ ruleResult = <<>>

\* BusinessRulesService.evaluateAllRules(context)
Evaluate ==
  /\ ruleResult = <<>>
  /\ ruleResult' = <<evaluateAllRules(ruleCtx)>>
  /\ UNCHANGED <<ruleCtx, storeVars, reqs, execVars, posts, uploadVars,
                 idemVars>>

NextRules == Evaluate

SpecRules == InitRules /\ [][NextRules]_vars

\* ----------------------------------------------------------- C4 and C5
\* C4: every report has version 1 when it enters the store, no store
\* operation lowers a version, and a successful updateReport raises the
\* version of its report by exactly 1 and leaves the other versions alone,
\* whatever the updates carry.
VersionByOne ==
  /\ \A id \in DOMAIN reports : reports[id].version = 1
  /\ [][ /\ \A id \in DOMAIN reports :
              /\ id \in DOMAIN reports'
              /\ reports'[id].version >= reports[id].version
              /\ reports'[id].version =
                   IF lastCall'.op = "updateReport" /\ lastCall'.outcome = "ok"
                      /\ lastCall'.id = id
                   THEN reports[id].version + 1
                   ELSE reports[id].version
         /\ \A id \in DOMAIN reports' \ DOMAIN reports :
              reports'[id].version = 1 ]_vars

\* a created report updated twice, the last time with updates that carry a
\* version
WitnessVersionByOne ==
  /\ lastCall.op = "updateReport"
  /\ lastCall.outcome = "ok"
  /\ lastCall.version # Absent
  /\ lastCall.id \in DOMAIN reports \ SampleIds
  /\ reports[lastCall.id].version = 3

\* C5: updateReport ends NotFound for a missing or soft-deleted report,
\* otherwise Conflict exactly when the updates carry a version different
\* from the stored one, otherwise ok; a failed call leaves the store as it
\* was.
ClaimedOutcome(rs, id, v) ==
  IF id \notin DOMAIN rs \/ ~rs[id].isActive THEN "NotFound"
  ELSE IF v # Absent /\ v # rs[id].version THEN "Conflict"
       ELSE "ok"

UpdateReportContract ==
  [][ lastCall'.op = "updateReport" =>
        /\ lastCall'.outcome =
             ClaimedOutcome(reports, lastCall'.id, lastCall'.version)
        /\ lastCall'.outcome # "ok" => reports' = reports ]_vars

\* ----------------------------------------------------- C1, C2 and C3
SameRequest(p, q) ==
  /\ reqs[p].user = reqs[q].user
  /\ reqs[p].id = reqs[q].id
  /\ reqs[p].body = reqs[q].body

\* C1: a PUT replayed with the idempotency key of an earlier, successfully
\* answered PUT gets the status and body of that answer, and the update is
\* not applied a second time.
IdempotentReplay ==
  \A q \in ReqIds : \A p \in reqs[q].after :
    SameRequest(p, q) =>
      /\ reqs[q].outcome = "none"
      /\ reqs[q].pc = "done" =>
           /\ reqs[q].status = reqs[p].status
           /\ reqs[q].respVersion = reqs[p].respVersion

\* the update attempts that presented their expected version to the store
ReachedStore(p) == reqs[p].outcome # "none"

Winners(id) == {p \in ReqIds : reqs[p].id = id /\ reqs[p].outcome = "ok"}

\* C2: of two update attempts on one report that present the same expected
\* version, at most one succeeds and the other ends in a version conflict;
\* a success leaves the version 1 above the expected one, and the version of
\* a report is 1 plus the number of updates that succeeded on it.
AtMostOneWinner ==
  /\ \A p \in ReqIds, q \in ReqIds :
       ( /\ p # q
         /\ ReachedStore(p) /\ ReachedStore(q)
         /\ reqs[p].id = reqs[q].id
         /\ reqs[p].current.version = reqs[q].current.version )
       => /\ ~(reqs[p].outcome = "ok" /\ reqs[q].outcome = "ok")
          /\ reqs[p].outcome = "Conflict" \/ reqs[q].outcome = "Conflict"
          /\ reqs[p].outcome = "Conflict" /\ reqs[p].pc = "done"
               => reqs[p].status = 409
  /\ \A p \in ReqIds :
       reqs[p].outcome = "ok" =>
         reqs[p].respVersion = reqs[p].current.version + 1
  /\ \A id \in DOMAIN reports :
       reports[id].version = 1 + Cardinality(Winners(id))

\* two overlapping updates of one report, both answered: one 200, one 409
WitnessAtMostOneWinner ==
  \E p \in ReqIds, q \in ReqIds :
    /\ p # q
    /\ reqs[p].pc = "done" /\ reqs[q].pc = "done"
    /\ reqs[p].status = 200 /\ reqs[q].status = 409
    /\ reqs[p].id = reqs[q].id
    /\ reqs[p].current.version = reqs[q].current.version

\* C3: an update that the rules allow and whose body carries a version
\* different from the version of the report is not applied and is answered
\* 409.
StaleVersionRejected ==
  \A p \in ReqIds :
    ( /\ reqs[p].pc \in {"updated", "audited", "done"}
      /\ reqs[p].current.isActive
      /\ reqs[p].body.version # Absent
      /\ reqs[p].body.version # reqs[p].current.version
      /\ evaluateAllRules([user |-> authenticateToken(reqs[p].user),
                           report |-> reqs[p].current, action |-> "update",
                           fileSize |-> Absent]).allowed )
    => /\ reqs[p].outcome # "ok"
       /\ reqs[p].pc = "done" => reqs[p].status = 409

\* ------------------------------------------------------------ C6 .. C10
BreakerOf(k) == cbHeap[circuitBreakerStates[k]]

OpenAndFresh(k) ==
  /\ circuitBreakerStates[k] # 0
  /\ BreakerOf(k).isOpen
  /\ now - BreakerOf(k).lastFailureTime < CircuitBreakerResetMs

\* C6 as stated: while the breaker of a kind is open and the reset interval
\* has not elapsed since its last failure, no step invokes the operation of
\* that kind.
NoInvocationWhileOpen ==
  [][ \A k \in Kinds : OpenAndFresh(k) =>
        \A c \in CallIds :
          calls'[c].kind = k => calls'[c].invocations = calls[c].invocations
    ]_vars

\* C6 as amended: a call that starts while the breaker of its kind is open
\* and the reset interval has not elapsed returns undefined at once, with no
\* invocation of the operation.
FailFast ==
  \A c \in CallIds :
    (calls[c].startOpen /\ calls[c].startGap = "lt") =>
      /\ calls[c].pc = "done"
      /\ calls[c].invocations = 0
      /\ calls[c].result = Undefined

\* a call rejected by a breaker that an earlier call opened
WitnessFailFast ==
  \E c \in CallIds :
    /\ calls[c].pc = "done"
    /\ calls[c].startOpen /\ calls[c].startGap = "lt"
    /\ calls[c].invocations = 0

\* C7: a call that starts with the breaker closed, on an operation that
\* rejects k <= maxRetries times and then resolves, invokes it k + 1 times
\* (it does not give up before), returns its result, and leaves the breaker
\* closed with zero failures.
RetryThenSucceed ==
  \A c \in CallIds :
    (~calls[c].startOpen /\ calls[c].rejected <= calls[c].maxRetries) =>
      /\ calls[c].pc = "backoff" =>
           /\ calls[c].i + 1 = calls[c].rejected
           /\ calls[c].invocations = calls[c].rejected
      /\ calls[c].pc = "invoking" =>
           /\ calls[c].i = calls[c].rejected
           /\ calls[c].invocations = calls[c].rejected + 1
      /\ calls[c].pc # "deadLetter"
      /\ (calls[c].pc = "done" /\ calls[c].invocations > 0) =>
           /\ calls[c].invocations = calls[c].rejected + 1
           /\ calls[c].result = OperationResult
           /\ calls[c].cbAtReturn = <<0, FALSE>>

\* a call that succeeded on a retry
WitnessRetryThenSucceed ==
  \E c \in CallIds :
    /\ calls[c].pc = "done"
    /\ ~calls[c].startOpen
    /\ calls[c].rejected >= 1 /\ calls[c].rejected <= calls[c].maxRetries
    /\ calls[c].invocations = calls[c].rejected + 1
    /\ calls[c].result = OperationResult

\* the calls whose operation rejected in every attempt they had
Exhausting(c) == calls[c].rejected > calls[c].maxRetries

\* C8: a call that starts with the breaker closed, on an operation that
\* always rejects, invokes it maxRetries + 1 times, then one dead-letter
\* record is written and undefined returned; no record is written for a
\* call that succeeds or that the open breaker rejects.
ExhaustThenDeadLetter ==
  \A c \in CallIds :
    /\ deadLetters[c] <= 1
    /\ calls[c].pc # "forgotten" =>
         /\ deadLetters[c] = IF Exhausting(c) THEN 1 ELSE 0
         /\ Exhausting(c) =>
              /\ calls[c].pc \in {"deadLetter", "done"}
              /\ calls[c].rejected = calls[c].maxRetries + 1
              /\ calls[c].invocations = calls[c].maxRetries + 1
              /\ calls[c].pc = "done" => calls[c].result = Undefined

\* an exhausted call with retries, next to a call that wrote no record
WitnessExhaustThenDeadLetter ==
  \E c \in CallIds, d \in CallIds :
    /\ calls[c].pc = "done" /\ ~calls[c].startOpen
    /\ calls[c].maxRetries >= 1 /\ Exhausting(c)
    /\ deadLetters[c] = 1
    /\ calls[d].pc = "forgotten" /\ deadLetters[d] = 0

\* C9: the failure counter of a breaker is the number of failed invocations
\* of its kind since the breaker was last closed with zero failures, and the
\* breaker is open exactly when that number has reached the threshold.
OpensAtThreshold ==
  \A k \in Kinds :
    circuitBreakerStates[k] # 0 =>
      /\ BreakerOf(k).failures = streak[k]
      /\ BreakerOf(k).isOpen <=> streak[k] >= CircuitBreakerThreshold

\* the failure that reaches the threshold has opened the breaker
WitnessOpensAtThreshold ==
  \E k \in Kinds :
    /\ circuitBreakerStates[k] # 0
    /\ streak[k] = CircuitBreakerThreshold
    /\ BreakerOf(k).isOpen
    /\ BreakerOf(k).failures = CircuitBreakerThreshold

\* C10: a call that finds the breaker open more than the reset interval
\* after its last failure invokes the operation, and when that invocation
\* resolves the call returns its result with the breaker closed and the
\* failure counter at 0.
HalfOpenProbe ==
  \A c \in CallIds :
    (calls[c].startOpen /\ calls[c].startGap = "gt") =>
      /\ calls[c].invocations >= 1
      /\ (calls[c].pc = "done" /\ calls[c].rejected = 0) =>
           /\ calls[c].invocations = 1
           /\ calls[c].result = OperationResult
           /\ calls[c].cbAtReturn = <<0, FALSE>>

\* a successful probe
WitnessHalfOpenProbe ==
  \E c \in CallIds :
    /\ calls[c].startOpen /\ calls[c].startGap = "gt"
    /\ calls[c].pc = "done" /\ calls[c].rejected = 0
    /\ calls[c].result = OperationResult

\* ----------------------------------------------------------- C11 .. C13
\* C11: when the first invocation of a call that found the breaker open past
\* its reset interval (the half-open probe) fails, the breaker is open again
\* and its failure time is the time of that failure.
ProbeFailureReopens ==
  [][ \A c \in CallIds :
        ( /\ calls[c].startOpen /\ calls[c].startGap = "gt"
          /\ calls[c].rejected = 0 /\ calls'[c].rejected = 1 )
        => /\ cbHeap'[calls[c].ref].isOpen
           /\ cbHeap'[calls[c].ref].lastFailureTime = now ]_vars

\* the steps of a call of kind k (its start, a settled invocation, a timer,
\* its return)
Acting(k) ==
  \E c \in CallIds :
    /\ calls'[c] # calls[c]
    /\ calls'[c].pc # "forgotten"
    /\ calls'[c].kind = k

\* the step removes the entry of kind k and of no other kind
ResetOf(k) ==
  /\ circuitBreakerStates'[k] = 0
  /\ \A a \in AllKinds \ {k} :
       circuitBreakerStates'[a] = circuitBreakerStates[a]

\* C12: the breaker status of a kind changes only in steps of calls of that
\* kind and in resets of that kind, and a call is rejected without an
\* invocation only when the breaker of its own kind was open.
KindsIndependent ==
  [][ /\ \A b \in AllKinds :
           getCircuitBreakerStatus(circuitBreakerStates', cbHeap', b)
             # getCircuitBreakerStatus(circuitBreakerStates, cbHeap, b)
           => Acting(b) \/ ResetOf(b)
      /\ \A c \in CallIds :
           ( /\ calls[c].pc = "idle" /\ calls'[c].pc = "done"
             /\ calls'[c].invocations = 0 )
           => LET own == getCircuitBreakerStatus(circuitBreakerStates, cbHeap,
                                                 calls'[c].kind)
              IN own # <<>> /\ own[1].isOpen ]_vars

\* a call of one kind is invoked while the breaker of the other kind is open
WitnessKindsIndependent ==
  \E c \in CallIds, a \in AllKinds :
    /\ calls[c].pc = "invoking" /\ calls[c].kind # a
    /\ circuitBreakerStates[a] # 0
    /\ cbHeap[circuitBreakerStates[a]].isOpen

\* ------------------------------------------------------------------- C13
\* C13: every call of executeAsyncSideEffect that has completed returned the
\* operation's result or undefined, never an error: a call that found the
\* breaker open and the reset interval not elapsed returned undefined
\* without an invocation, a call whose attempts were all rejected returned
\* undefined, and a call returned the operation's result exactly when its
\* last invocation resolved.  A call under way is at one of the suspension
\* points of the function.
NeverThrows ==
  \A c \in CallIds :
    /\ calls[c].pc \in {"idle", "invoking", "backoff", "deadLetter", "done",
                        "forgotten"}
    /\ calls[c].pc = "done" =>
         /\ calls[c].result \in {OperationResult, Undefined}
         /\ (calls[c].startOpen /\ calls[c].startGap # "gt")
              => calls[c].result = Undefined /\ calls[c].invocations = 0
         /\ Exhausting(c) => calls[c].result = Undefined
         /\ calls[c].result = OperationResult
              <=> calls[c].invocations = calls[c].rejected + 1

\* a call has returned undefined after its operation was rejected in every
\* attempt, with the breaker of its kind open when it returned
WitnessNeverThrows ==
  \E c \in CallIds :
    /\ calls[c].pc = "done"
    /\ calls[c].rejected = calls[c].maxRetries + 1
    /\ calls[c].rejected >= CircuitBreakerThreshold
    /\ calls[c].result = Undefined
    /\ calls[c].cbAtReturn # <<>>
    /\ calls[c].cbAtReturn[2]

\* ----------------------------------------------------------- C14 .. C16
\* C14: for every actor whose role is below editor and every report state,
\* evaluateAllRules with action update does not allow.
ReaderUpdateDenied ==
  ( /\ ruleResult # <<>>
    /\ ruleCtx.action = "update"
    /\ ~hasRole(ruleCtx.user.role, "editor") )
  => ~ruleResult[1].allowed

\* a reader who created a fresh draft nobody edits asked to update it: no
\* rule but the role floor denies
WitnessReaderUpdateDenied ==
  /\ ruleResult # <<>>
  /\ ruleCtx.action = "update"
  /\ ruleCtx.user.role = "reader"
  /\ ruleCtx.report.createdBy = ruleCtx.user.id
  /\ ruleCtx.report.status = "draft"
  /\ ~ruleCtx.report.old
  /\ ruleCtx.report.concurrentEditors = {}
  /\ ruleResult[1].reason
       = "Insufficient permissions. Minimum role required: editor"

\* C15: for an archived report, evaluateAllRules with action update allows
\* only an admin, and denies every other actor with the reason of the
\* lifecycle rule, whatever the ownership, the editors and the age.
ArchivedOnlyAdmin ==
  ( /\ ruleResult # <<>>
    /\ ruleCtx.action = "update"
    /\ ruleCtx.report.status = "archived" )
  => /\ ruleResult[1].allowed => ruleCtx.user.role = "admin"
     /\ ruleCtx.user.role # "admin"
          => ruleResult[1] = Deny("Only ADMIN users can edit archived reports")

\* an editor who created an archived, old report with a full set of editors
\* was denied
WitnessArchivedOnlyAdmin ==
  /\ ruleResult # <<>>
  /\ ruleCtx.action = "update"
  /\ ruleCtx.report.status = "archived"
  /\ ruleCtx.user.role = "editor"
  /\ ruleCtx.report.createdBy = ruleCtx.user.id
  /\ ruleCtx.report.old
  /\ Cardinality(ruleCtx.report.concurrentEditors) >= MaxConcurrentEditors
  /\ ~ruleResult[1].allowed

\* C16: evaluateAllRules returns the result of the first rule that denies in
\* the order lifecycle, quota, collaboration, retention, role floor, and
\* allows when none denies.
FirstDenyingRule ==
  ruleResult # <<>> =>
    LET r == ruleResult[1]
        lifecycle == checkReportLifecycleManagement(ruleCtx)
        quota == checkAttachmentQuota(ruleCtx)
        collaboration == checkReportCollaboration(ruleCtx)
        retention == checkDataRetentionPolicy(ruleCtx)
        floor == checkGeneralEditPermissions(ruleCtx)
    IN IF ~lifecycle.allowed THEN r = lifecycle
       ELSE IF ~quota.allowed THEN r = quota
       ELSE IF ~collaboration.allowed THEN r = collaboration
       ELSE IF ~retention.allowed THEN r = retention
       ELSE IF ~floor.allowed THEN r = floor
       ELSE r.allowed

\* four rules deny the same context (a reader, neither creator nor
\* collaborator, on an archived old report) and the reason is the lifecycle
\* rule's
WitnessFirstDenyingRule ==
  /\ ruleResult # <<>>
  /\ ~checkReportLifecycleManagement(ruleCtx).allowed
  /\ ~checkReportCollaboration(ruleCtx).allowed
  /\ ~checkDataRetentionPolicy(ruleCtx).allowed
  /\ ~checkGeneralEditPermissions(ruleCtx).allowed
  /\ ruleResult[1].reason = "Only ADMIN users can edit archived reports"

\* ------------------------------------------------------------------- C17
\* C17: in every state, the stored storage usage of every user is at most
\* the quota of the user's tier.
UsageWithinQuota ==
  \A u \in Users : users[u].storageUsed <= getUserQuota(users[u].tier)

\* ----------------------------------------------------------- C19 and C20
\* C19: in every state of the store, every report has at most
\* MaxConcurrentEditors concurrent editors.
EditorsWithinLimit ==
  \A id \in DOMAIN reports :
    Cardinality(reports[id].concurrentEditors) <= MaxConcurrentEditors

\* C20: a PUT request of an admin for a report that exists and is not
\* deleted is not refused by the rules: it is answered 200, or 409 when
\* another update of the report got in first.
AdminUpdateSucceeds ==
  \A p \in ReqIds :
    ( /\ reqs[p].pc = "done"
      /\ reqs[p].user \in Users
      /\ UserRole[reqs[p].user] = "admin"
      /\ reqs[p].current.isActive )
    => reqs[p].status \in {200, 409}

\* ------------------------------------------------------------------- C18
\* C18: every entry of the idempotency cache belongs to a canonical UUID
\* key and has a status from 200 to 299; a request with a malformed key is
\* answered 400 without a cache hit and without the handler; and a handler
\* answer with an error status leaves the cache as it was.
CanonicalKeys == {KeyLower, KeyUpper}

CacheOnlySuccess ==
  [][ /\ \A k \in DOMAIN idempotencyCache' :
           /\ k \in CanonicalKeys
           /\ idempotencyCache'[k].status \in 200 .. 299
      /\ \A r \in IdemReqIds :
           /\ ( /\ ireqs'[r].pc = "done"
                /\ ireqs'[r].key \notin CanonicalKeys \cup {<<>>} )
              => /\ ireqs'[r].status = 400
                 /\ ~ireqs'[r].hit
                 /\ ~ireqs'[r].handled
           /\ ( /\ ireqs[r].pc = "handling"
                /\ ireqs'[r].pc = "done"
                /\ ireqs'[r].status \notin 200 .. 299 )
              => idempotencyCache' = idempotencyCache ]_vars

\* after a handler answered an error under a canonical key and left no
\* entry, a second request with that key has reached its handler, which
\* answered with a success that is now in the cache
WitnessCacheOnlySuccess ==
  \E r, q \in IdemReqIds :
    /\ r < q
    /\ ireqs[r].pc = "done" /\ ireqs[r].handled /\ ireqs[r].status = 500
    /\ ireqs[q].pc = "done" /\ ireqs[q].handled /\ ireqs[q].status = 201
    /\ ireqs[r].key = KeyUpper /\ ireqs[q].key = KeyUpper
    /\ KeyUpper \in DOMAIN idempotencyCache
    /\ idempotencyCache[KeyUpper] = [status |-> 201, body |-> q]

\* ------------------------------------------------------------------- C21
\* the actor is not the creator, no collaborator and no admin
Outsider(u, report) ==
  /\ report.createdBy # u
  /\ u \notin report.collaborators
  /\ UserRole[u] # "admin"

CollaborationMessage ==
  "Only the creator, assigned collaborators, or admins can edit this report"

\* C21: a PUT request for an existing report by an actor who is neither its
\* creator nor a collaborator nor an admin is answered 403 with the message
\* of the collaboration rule, and the report stays as it is: in the step
\* in which the chain answers on arrival, and in the step in which the
\* controller answers after it has read the report.
OutsiderRejected ==
  [][ \A p \in ReqIds :
        /\ ( /\ reqs[p].pc = "idle" /\ reqs'[p].pc = "done"
             /\ isUUID(reqs'[p].id)
             /\ HasReport(reports, reqs'[p].id)
             /\ Outsider(reqs'[p].user, reports[reqs'[p].id]) )
           => /\ reqs'[p].status = 403
              /\ reqs'[p].message = CollaborationMessage
              /\ reports' = reports
        /\ ( /\ reqs[p].pc = "gotReport"
             /\ reqs[p].current.isActive
             /\ Outsider(reqs[p].user, reqs[p].current) )
           => /\ reqs'[p].pc \in {"gotReport", "done"}
              /\ reqs'[p].pc = "done"
                   => /\ reqs'[p].status = 403
                      /\ reqs'[p].message = CollaborationMessage
              /\ reports' = reports ]_vars

\* ------------------------------------------------------------------- C22
\* C22: of the requests that carry one valid idempotency key, at most one
\* has its mutation applied while the recorded response is kept: no handler
\* completes a mutation with success for a key under which a success is
\* recorded in the cache.
AppliedOnce ==
  [][ \A r \in IdemReqIds :
        ( /\ ireqs[r].pc = "handling"
          /\ ireqs'[r].pc = "done"
          /\ ireqs[r].key # <<>>
          /\ ireqs'[r].status \in 200 .. 299 )
        => ireqs[r].key \notin DOMAIN idempotencyCache ]_vars

\* ------------------------------------------------------------------- C23
\* the uploads whose attachment is stored, and those whose size has been
\* added to the usage of their user
Stored(n) == uploads[n].pc \in {"created", "accounted", "audited"}
               \/ (uploads[n].pc = "done" /\ uploads[n].status = 201)

Accounted(n) == uploads[n].pc \in {"accounted", "audited"}
                  \/ (uploads[n].pc = "done" /\ uploads[n].status = 201)

RECURSIVE SizeSum(_, _)
SizeSum(u, ns) ==
  IF ns = {} THEN 0
  ELSE LET n == CHOOSE k \in ns : TRUE
       IN (IF Accounted(n) /\ uploads[n].user = u THEN uploads[n].size ELSE 0)
            + SizeSum(u, ns \ {n})

\* C23: the stored usage of every user is its initial value plus the sizes
\* of the files of the user's uploads accounted so far, however the
\* uploads interleave, and there is one attachment per upload that got as
\* far as createAttachment, carrying that upload's report, size and user.
NoLostUpload ==
  /\ \A u \in Users :
       users[u].storageUsed = sampleUsers[u].storageUsed + SizeSum(u, UploadIds)
  /\ Len(attachments) = Cardinality({n \in UploadIds : Stored(n)})
  /\ \A n \in UploadIds :
       Stored(n) =>
         \E a \in 1 .. Len(attachments) :
           /\ attachments[a].reportId = uploads[n].id
           /\ attachments[a].size = uploads[n].size
           /\ attachments[a].uploadedBy = uploads[n].user

\* two uploads of one user overlap: both attachments are stored, one upload
\* has been accounted and the other is suspended before its accounting
WitnessNoLostUpload ==
  \E n, k \in UploadIds :
    /\ n # k
    /\ uploads[n].user = uploads[k].user
    /\ uploads[n].pc = "created"
    /\ uploads[k].pc = "accounted"
    /\ Len(attachments) = 2
    /\ users[uploads[k].user].storageUsed
         = sampleUsers[uploads[k].user].storageUsed + uploads[k].size

\* ------------------------------------------------------------------- C24
\* a step of resetCircuitBreaker or clearAllCircuitBreakers: no call of the
\* executor moves and no time passes
ManagementStep == calls' = calls /\ now' = now

\* the calls of the executor that hold a state object
InFlight(c) == calls[c].pc \in {"invoking", "backoff", "deadLetter"}

\* the steps as C24 has them
StatusAfterResetStep ==
  /\ \A k \in AllKinds :
       ( /\ getCircuitBreakerStatus(circuitBreakerStates, cbHeap, k) = <<>>
         /\ getCircuitBreakerStatus(circuitBreakerStates', cbHeap', k)
              # <<>> )
       => \E c \in CallIds : /\ calls[c].pc = "idle"
                             /\ calls'[c].pc # "idle"
                             /\ calls'[c].kind = k
  /\ (ManagementStep /\ lastCall'.op = "resetCircuitBreaker")
       => /\ getCircuitBreakerStatus(circuitBreakerStates', cbHeap',
                                     lastCall'.id) = <<>>
          /\ \A a \in AllKinds \ {lastCall'.id} :
               circuitBreakerStates'[a] = circuitBreakerStates[a]
          /\ cbHeap' = cbHeap
  /\ (ManagementStep /\ lastCall'.op = "clearAllCircuitBreakers")
       => \A k \in AllKinds :
            getCircuitBreakerStatus(circuitBreakerStates', cbHeap', k)
              = <<>>
  /\ \A c \in CallIds :
       ( /\ calls[c].pc = "idle" /\ calls'[c].pc # "idle"
         /\ circuitBreakerStates[calls'[c].kind] = 0 )
       => /\ calls'[c].pc = "invoking"
          /\ ~calls'[c].startOpen
          /\ getCircuitBreakerStatus(circuitBreakerStates', cbHeap',
                                     calls'[c].kind) = <<NewBreaker>>
          /\ \A d \in CallIds :
               ( InFlight(d) => ( /\ calls[d].ref # calls'[c].ref
                                  /\ cbHeap'[calls[d].ref]
                                       = cbHeap[calls[d].ref] ) )
  /\ \A c \in CallIds :
       ( /\ calls[c].pc = "invoking" /\ calls'[c] # calls[c]
         /\ calls[c].ref # circuitBreakerStates[calls[c].kind] )
       => getCircuitBreakerStatus(circuitBreakerStates', cbHeap',
                                  calls[c].kind)
            = getCircuitBreakerStatus(circuitBreakerStates, cbHeap,
                                      calls[c].kind)

\* C24: the status of a kind is null until a call of that kind starts;
\* resetCircuitBreaker(kind) leaves the status of that kind null and the
\* entries and state objects of the other kinds as they were;
\* clearAllCircuitBreakers leaves every status null; and a call that starts
\* for a kind without an entry is invoked on a new closed state object with
\* zero failures that it shares with no call in flight, whose later failures
\* leave the status of the kind alone.
StatusAfterReset ==
  /\ \A k \in AllKinds :
       getCircuitBreakerStatus(circuitBreakerStates, cbHeap, k) = <<>>
  /\ [][StatusAfterResetStep]_vars

\* a call is invoked on a new state object without failures after a reset
\* of its kind, while a call of that kind that was in flight at the reset
\* has counted its failure on the state object it holds
WitnessStatusAfterReset ==
  \E c, d \in CallIds :
    /\ calls[c].pc = "invoking" /\ calls[d].pc = "deadLetter"
    /\ calls[c].kind = calls[d].kind
    /\ lastCall.op = "resetCircuitBreaker" /\ lastCall.id = calls[c].kind
    /\ calls[c].ref # calls[d].ref
    /\ cbHeap[calls[d].ref].failures > 0
    /\ ~cbHeap[calls[c].ref].isOpen /\ cbHeap[calls[c].ref].failures = 0
    /\ circuitBreakerStates[calls[c].kind] = calls[c].ref

\* ------------------------------------------------------------------- C25
\* the breaker of kind k is open
IsOpen(map, heap, k) ==
  LET status == getCircuitBreakerStatus(map, heap, k)
  IN status # <<>> /\ status[1].isOpen

\* the breaker of kind k has an entry and is closed
IsClosed(map, heap, k) ==
  LET status == getCircuitBreakerStatus(map, heap, k)
  IN status # <<>> /\ ~status[1].isOpen

\* the step in which the invocation of a half-open probe of kind k resolves:
\* the call found the breaker open after the reset interval and returns the
\* operation's result
ProbeSucceeds(k) ==
  \E c \in CallIds :
    /\ calls[c].pc = "invoking" /\ calls[c].kind = k
    /\ calls[c].startOpen /\ calls[c].startGap = "gt"
    /\ calls'[c].pc = "done" /\ calls'[c].result = OperationResult

\* C25: with calls of one kind interleaved in any way, the entry of a kind
\* goes from open to closed only in the step in which the invocation of a
\* half-open probe of that kind resolves (a reset or a clear removes the
\* entry).
ClosesOnlyByProbe ==
  [][ \A k \in AllKinds :
        ( /\ IsOpen(circuitBreakerStates, cbHeap, k)
          /\ IsClosed(circuitBreakerStates', cbHeap', k) )
        => ProbeSucceeds(k) ]_vars

\* ------------------------------------------------------------------- C26
\* C26: when attempt i of a call is rejected and attempts remain, the timer
\* of the wait is set to backoffMs * 2^i from now without jitter and to a
\* delay d with 0.5 * backoffMs * 2^i <= d < backoffMs * 2^i with jitter
\* (timers due after the last instant aside); when the last attempt is
\* rejected the call goes on to the dead letter path without a wait.
BackoffDelay ==
  [][ \A c \in CallIds :
        /\ ( /\ calls[c].pc = "invoking" /\ calls'[c].pc = "backoff"
              /\ calls'[c].wakeAt <= MaxNow )
           => LET base == BackoffMs * Pow2(calls[c].i)
                  d == calls'[c].wakeAt - now
              IN /\ calls[c].i < calls[c].maxRetries
                 /\ IF calls[c].jitter THEN 2 * d >= base /\ d < base
                    ELSE d = base
        /\ ( /\ calls[c].pc = "invoking" /\ calls'[c] # calls[c]
              /\ calls[c].i = calls[c].maxRetries )
           => calls'[c].pc \in {"done", "deadLetter"} ]_vars

\* ------------------------------------------------------------------- C27
\* the report of an answered creation is stored as it was created and the
\* audit log holds the one entry of the creation
CreatedAsAnswered(s) ==
  LET id == posts[s].id
      entries == {n \in 1 .. Len(auditLogs) : auditLogs[n].resourceId = id}
  IN /\ HasReport(reports, id)
     /\ reports[id].version = 1 /\ reports[id].status = "draft"
     /\ reports[id].createdBy = posts[s].user
     /\ Cardinality(entries) = 1
     /\ \A n \in entries : /\ auditLogs[n].action = "create"
                            /\ auditLogs[n].userId = posts[s].user
                            /\ auditLogs[n].afterVersion = 1

\* C27: a creation that has been stored and audited is answered with 201
\* whatever the breaker and the calls of the executor are at, no step of the
\* executor changes a request, the stored reports or the audit log, and
\* while the side effect succeeds, is retried, is rejected by the open
\* breaker or is dead-lettered the report of the answered creation stays
\* stored as created with its one audit entry.
CreateUnaffected ==
  [][ /\ \A s \in PostIds :
           (posts[s].pc = "audited" /\ posts'[s].pc = "done")
           => posts'[s].status = 201
      /\ (calls' # calls \/ cbHeap' # cbHeap
            \/ circuitBreakerStates' # circuitBreakerStates)
           => posts' = posts /\ reports' = reports /\ auditLogs' = auditLogs
      /\ \A s \in PostIds :
           (posts'[s].pc = "done" /\ posts'[s].status = 201)
           => CreatedAsAnswered(s)' ]_vars

\* the side effect of an answered creation was rejected by the open breaker
\* without an invocation
WitnessCreateUnaffected ==
  \E s \in PostIds :
    /\ posts[s].pc = "done" /\ posts[s].status = 201
    /\ CreatedAsAnswered(s)
    /\ calls[MaxCalls].pc = "done" /\ calls[MaxCalls].invocations = 0
    /\ calls[MaxCalls].result = Undefined

\* ------------------------------------------------------------------- C28
\* the audit entries of updates
UpdateEntries ==
  {n \in 1 .. Len(auditLogs) : auditLogs[n].action = "update"}

\* the PUT requests whose update is stored and audited
AuditedUpdates ==
  {p \in ReqIds : \/ reqs[p].pc = "audited"
                  \/ reqs[p].pc = "done" /\ reqs[p].status = 200}

\* C28: the audit log holds one update entry for each PUT request whose
\* update succeeded and none for a request that was denied, found no report
\* or met a conflict; every update entry is that of a stored update (the
\* report has reached the entry's after version) and its after version is
\* its before version plus 1, also when the updates of one report overlap.
OneAuditPerUpdate ==
  /\ Cardinality(UpdateEntries) = Cardinality(AuditedUpdates)
  /\ \A n \in UpdateEntries :
       /\ auditLogs[n].afterVersion = auditLogs[n].beforeVersion + 1
       /\ HasReport(reports, auditLogs[n].resourceId)
       /\ reports[auditLogs[n].resourceId].version >= auditLogs[n].afterVersion
  /\ \A p \in AuditedUpdates :
       \E n \in UpdateEntries :
         /\ auditLogs[n].userId = reqs[p].user
         /\ auditLogs[n].resourceId = reqs[p].id
         /\ auditLogs[n].afterVersion = reqs[p].respVersion
  /\ \A p \in ReqIds :
       reqs[p].pc = "updated"
       => \A n \in UpdateEntries :
            auditLogs[n].resourceId = reqs[p].id
            => auditLogs[n].afterVersion # reqs[p].respVersion

\* of two updates that read the same version of one report, one is answered
\* 200 and audited and the other is answered 409
WitnessOneAuditPerUpdate ==
  \E p, q \in ReqIds :
    /\ reqs[p].pc = "done" /\ reqs[p].status = 200
    /\ reqs[q].pc = "done" /\ reqs[q].status = 409
    /\ reqs[p].id = reqs[q].id
    /\ reqs[p].current.version = reqs[q].current.version
    /\ Cardinality({n \in UpdateEntries :
                      auditLogs[n].resourceId = reqs[p].id}) = 1

\* ------------------------------------------------------------------- C29
\* the actors whose update of report id is in progress: allowed by the
\* rules and stored, not yet answered
Updating(id) ==
  {reqs[p].user : p \in {q \in ReqIds : /\ reqs[q].id = id
                                         /\ reqs[q].pc \in {"updated",
                                                              "audited"}}}

\* C29: the concurrentEditors of a report are the actors whose update of the
\* report is in progress: an actor is listed while the actor's update is
\* under way and no longer once the updates have completed.
EditorsTrackUpdates ==
  \A id \in DOMAIN reports :
    reports[id].isActive => reports[id].concurrentEditors = Updating(id)

\* ------------------------------------------------------------------- C30
\* the cache entries recorded by a request that carried the key
RecordedUnder(key) ==
  {k \in DOMAIN idempotencyCache :
     ireqs[idempotencyCache[k].body].key = key}

\* C30: a request that arrives with a key under which a success response
\* is recorded and still in the cache is answered with the recorded status
\* and body, whoever sends it, to whichever route and with whichever body,
\* and its handler is not run (the cache is left as it is).
KeyedByKeyAlone ==
  [][ \A r \in IdemReqIds :
        ( /\ ireqs[r].pc = "idle" /\ ireqs'[r].pc # "idle"
          /\ RecordedUnder(ireqs'[r].key) # {} )
        => /\ ireqs'[r].pc = "done" /\ ireqs'[r].hit /\ ~ireqs'[r].handled
           /\ \E k \in RecordedUnder(ireqs'[r].key) :
                /\ ireqs'[r].status = idempotencyCache[k].status
                /\ ireqs'[r].body = idempotencyCache[k].body
           /\ idempotencyCache' = idempotencyCache ]_vars

\* a request was answered with the response recorded for a request of
\* another actor
WitnessKeyedByKeyAlone ==
  \E r \in IdemReqIds :
    /\ ireqs[r].pc = "done" /\ ireqs[r].hit /\ ~ireqs[r].handled
    /\ LET q == ireqs[r].body
       IN /\ q # r /\ ireqs[q].handled /\ ireqs[q].key = ireqs[r].key
          /\ ireqs[q].sender[1].actor # ireqs[r].sender[1].actor
          /\ ireqs[r].status = ireqs[q].status
====
